---- MODULE Spec2Model ----
(***************************************************************************)
(* Hall booking calendar (App.tsx, BookingModal, ScheduleTable).           *)
(*                                                                         *)
(* Encodings used throughout:                                              *)
(*  - a time label 'HH:MM' is the number HHMM (07:30 is 730); the labels   *)
(*    are zero padded and of one width, so JavaScript's string order on    *)
(*    them is the numeric order of HHMM; the empty string '' is 0;         *)
(*  - a Date is [y, m, d] with m zero based, as in JavaScript;            *)
(*  - a date key 'YYYY-MM-DD' is the number YYYYMMDD;                      *)
(*  - an optional value (undefined or a value) is <<>> or <<value>>;       *)
(*  - a booking id is <<"lit", n>> for the literal 'n' and <<"iso", t>>    *)
(*    for the ISO rendering of the instant t (milliseconds);               *)
(*  - the Arabic department names, notes and messages are short tokens.    *)
(***************************************************************************)
EXTENDS Integers, Sequences, FiniteSets, TLC

VARIABLES selectedHall, currentDate, bookings, modalInfo,
          department, endTime, notes, error,
          clock, everIds, created,
          layout, counts, bookingColorMap, lastColorIndex

\* the outputs of the layout, export and count functions and ScheduleTable's
\* colour refs: the handlers of App and BookingModal never read them
fnVars == <<layout, counts, bookingColorMap, lastColorIndex>>

appVars == <<selectedHall, currentDate, bookings, modalInfo,
             department, endTime, notes, error, clock, everIds, created>>

vars == <<selectedHall, currentDate, bookings, modalInfo,
          department, endTime, notes, error, clock, everIds, created,
          layout, counts, bookingColorMap, lastColorIndex>>

(***************************************************************************)
(* Bounds of the model.                                                    *)
(***************************************************************************)
\* bookings created in one session
MaxCreates == 2
\* the instants new Date() can return are 0..MaxClock
MaxClock == 1
\* the user clicks and selects among the first UserSlotMax slot labels
UserSlotMax == 3
\* the user clicks days from today to today + DaySpan
DaySpan == 0
\* the slot lists laid out have at most this many labels
MaxSlotLabels == 5
\* a day laid out holds at most this many bookings
MaxDayBookings == 2
\* the stores counted hold at most this many bookings
MaxStoreInputs == 3
\* the layout passes of a session meet at most this many distinct booking ids
MaxColorIds == 12
\* an id met for the first time is one of this many least ids not met before
NewIdWindow == 2

(***************************************************************************)
(* types.ts                                                                *)
(***************************************************************************)
AlWaha == "al-waha"
AlDana == "al-dana"
Hall == {AlWaha, AlDana}

(***************************************************************************)
(* Dates.                                                                  *)
(***************************************************************************)
IsLeap(y) == (y % 4 = 0 /\ y % 100 # 0) \/ y % 400 = 0

DaysIn(y, m) ==
    IF m = 1 THEN (IF IsLeap(y) THEN 29 ELSE 28)
    ELSE IF m \in {3, 5, 8, 10} THEN 30 ELSE 31

\* utils/dateUtils getDaysInMonth: the days of a month, first to last
getDaysInMonth(y, m) == [i \in 1..DaysIn(y, m) |-> [y |-> y, m |-> m, d |-> i]]

\* utils/dateUtils formatToYYYYMMDD: the canonical key of a day
formatToYYYYMMDD(date) == date.y * 10000 + (date.m + 1) * 100 + date.d

\* Date.prototype.setDate(getDate() + n) for n >= 0: overflow rolls over
RECURSIVE AddDays(_, _)
AddDays(date, n) ==
    IF n = 0 THEN date
    ELSE IF date.d < DaysIn(date.y, date.m)
         THEN AddDays([date EXCEPT !.d = date.d + 1], n - 1)
    ELSE IF date.m < 11
         THEN AddDays([y |-> date.y, m |-> date.m + 1, d |-> 1], n - 1)
    ELSE AddDays([y |-> date.y + 1, m |-> 0, d |-> 1], n - 1)

\* the value of new Date() when the page loads
Today == [y |-> 2026, m |-> 0, d |-> 30]

(***************************************************************************)
(* App.tsx                                                                 *)
(***************************************************************************)
timeSlots == <<730, 800, 900, 1000, 1100, 1200, 1300, 1400, 1500, 1600, 1700, 1800>>

indexOf(seq, x) ==
    IF \E i \in 1..Len(seq) : seq[i] = x
    THEN (CHOOSE i \in 1..Len(seq) : seq[i] = x /\ \A j \in 1..(i - 1) : seq[j] # x) - 1
    ELSE -1

generateInitialBookings ==
    << [id |-> <<"lit", 1>>, hallId |-> AlWaha, date |-> formatToYYYYMMDD(Today),
        time |-> 900, endTime |-> 1100, department |-> "HR", notes |-> "interviews"],
       [id |-> <<"lit", 2>>, hallId |-> AlWaha, date |-> formatToYYYYMMDD(AddDays(Today, 1)),
        time |-> 1100, endTime |-> 1200, department |-> "IT", notes |-> "support"],
       [id |-> <<"lit", 3>>, hallId |-> AlDana, date |-> formatToYYYYMMDD(AddDays(Today, 2)),
        time |-> 1400, endTime |-> 1600, department |-> "MKT", notes |-> "workshop"] >>

toISOString(t) == <<"iso", t>>

ModalClosed == [isOpen |-> FALSE, bookingToEdit |-> <<>>, date |-> <<>>, time |-> 0]

\* the state after App is constructed
AppInit ==
    /\ selectedHall = AlWaha
    /\ currentDate = [year |-> Today.y, month |-> Today.m]
    /\ bookings = generateInitialBookings
    /\ modalInfo = ModalClosed
    /\ department = ""
    /\ endTime = 0
    /\ notes = ""
    /\ error = ""
    /\ clock = 0
    /\ everIds = {generateInitialBookings[i].id : i \in 1..Len(generateInitialBookings)}
    /\ created = 0

\* ScheduleTable's refs after construction, and no function output yet
ColorInit == bookingColorMap = <<>> /\ lastColorIndex = -1

Init ==
    /\ AppInit
    /\ ColorInit
    /\ layout = <<>>
    /\ counts = <<>>

(***************************************************************************)
(* Array helpers.                                                          *)
(***************************************************************************)
\* the first element of a sequence, or undefined when it is empty
first(seq) == IF seq = <<>> THEN <<>> ELSE <<seq[1]>>

\* bookings.find(b => b.id === bookingId)
findById(bks, bookingId) ==
    LET HasId(b) == b.id = bookingId IN first(SelectSeq(bks, HasId))

\* allDayBookings.find(b => b.time === time)
findStartingAt(allDayBookings, time) ==
    LET StartsHere(b) == b.time = time IN first(SelectSeq(allDayBookings, StartsHere))

\* String.prototype.trim on the department values the form can hold
trim(s) == IF s = " " THEN "" ELSE s

(***************************************************************************)
(* ScheduleTable: one row of the grid.  A cell is                          *)
(* [kind, col, span, time, id]; col is the zero based slot column.         *)
(***************************************************************************)
NoId == <<"none", 0>>

\* mutant: the sentinel label is kept as a column
displayTimeSlotsKeepsLast(slots) == slots

\* timeSlots.slice(0, -1)
displayTimeSlots(slots) == SubSeq(slots, 1, Len(slots) - 1)

EmptyCell(slots, i) ==
    [kind |-> "empty", col |-> i, span |-> 1, time |-> slots[i + 1], id |-> NoId]

RECURSIVE RowCellsFrom(_, _, _)
RowCellsFrom(slots, allDayBookings, i) ==
    IF ~(i < Len(displayTimeSlots(slots))) THEN <<>>
    ELSE
      LET time == slots[i + 1]
          booking == findStartingAt(allDayBookings, time)
      IN IF booking # <<>>
         THEN LET startTimeIndex == i
                  endTimeIndex == indexOf(slots, booking[1].endTime)
              IN IF endTimeIndex > startTimeIndex
                 THEN LET span == endTimeIndex - startTimeIndex
                      IN <<[kind |-> "booking", col |-> i, span |-> span,
                            time |-> time, id |-> booking[1].id]>>
                         \o RowCellsFrom(slots, allDayBookings, i + span)
                 ELSE <<EmptyCell(slots, i)>> \o RowCellsFrom(slots, allDayBookings, i + 1)
         ELSE <<EmptyCell(slots, i)>> \o RowCellsFrom(slots, allDayBookings, i + 1)

\* the row ScheduleTable renders for `day`, given its bookings prop
TableRow(tableBookings, day) ==
    LET OnDay(b) == b.date = formatToYYYYMMDD(day)
    IN RowCellsFrom(timeSlots, SelectSeq(tableBookings, OnDay), 0)

\* App's render: the table gets the selected hall's bookings and the month's days
daysInMonth == getDaysInMonth(currentDate.year, currentDate.month)

OfSelectedHall(b) == b.hallId = selectedHall

RenderedRow(day) == TableRow(SelectSeq(bookings, OfSelectedHall), day)

(***************************************************************************)
(* ScheduleTable: the colour of a booking.  The Map is the sequence of its *)
(* entries <<id, colour>> in insertion order.                              *)
(***************************************************************************)
bookingColors ==
    <<"blue", "teal", "green", "indigo", "purple",
      "pink", "sky", "cyan", "emerald", "rose">>

\* bookingColorMap.current.has(bookingId)
hasColor(map, bookingId) == \E k \in 1..Len(map) : map[k][1] = bookingId

\* bookingColorMap.current.get(bookingId)
colorOf(map, bookingId) ==
    LET IsId(entry) == entry[1] = bookingId IN SelectSeq(map, IsId)[1][2]

\* mutant: an id that has a colour is given the next one
getBookingColorAlwaysAdvances(refs, bookingId) ==
    LET next == (refs.last + 1) % Len(bookingColors)
    IN IF ~hasColor(refs.map, bookingId)
       THEN [map |-> Append(refs.map, <<bookingId, bookingColors[next + 1]>>),
             last |-> next]
       ELSE [map |-> [k \in 1..Len(refs.map) |->
                         IF refs.map[k][1] = bookingId
                         THEN <<bookingId, bookingColors[next + 1]>> ELSE refs.map[k]],
             last |-> next]

\* the refs after getBookingColor(bookingId)
getBookingColor(refs, bookingId) ==
    IF ~hasColor(refs.map, bookingId)
    THEN LET next == (refs.last + 1) % Len(bookingColors)
         IN [map |-> Append(refs.map, <<bookingId, bookingColors[next + 1]>>),
             last |-> next]
    ELSE refs

\* the ids getBookingColor is called with while a row is laid out, in order
RECURSIVE RowColorCalls(_, _, _)
RowColorCalls(slots, allDayBookings, i) ==
    IF ~(i < Len(displayTimeSlots(slots))) THEN <<>>
    ELSE
      LET booking == findStartingAt(allDayBookings, slots[i + 1])
      IN IF booking # <<>>
         THEN LET endTimeIndex == indexOf(slots, booking[1].endTime)
              IN <<booking[1].id>>
                 \o RowColorCalls(slots, allDayBookings,
                                  IF endTimeIndex > i THEN endTimeIndex ELSE i + 1)
         ELSE RowColorCalls(slots, allDayBookings, i + 1)

RECURSIVE colorsAfter(_, _)
colorsAfter(refs, ids) ==
    IF ids = <<>> THEN refs
    ELSE colorsAfter(getBookingColor(refs, ids[1]), Tail(ids))

(***************************************************************************)
(* handleExportToExcel: one data row of the sheet.  The loop's iterations  *)
(* are cells [kind, col, span, time, id, value]; the row's slot entries    *)
(* and the merge regions are what the iterations push.                     *)
(***************************************************************************)
Null == "null"

\* mutant: the end label's column is counted into the span
RECURSIVE ExportCellsInclusiveEnd(_, _, _)
ExportCellsInclusiveEnd(slots, dayBookings, i) ==
    IF ~(i < Len(displayTimeSlots(slots))) THEN <<>>
    ELSE
      LET time == slots[i + 1]
          booking == findStartingAt(dayBookings, time)
      IN IF booking # <<>>
         THEN LET startTimeIndex == indexOf(slots, booking[1].time)
                  endTimeIndex == indexOf(slots, booking[1].endTime)
                  span == IF endTimeIndex > startTimeIndex
                          THEN endTimeIndex - startTimeIndex + 1 ELSE 1
              IN <<[kind |-> "booking", col |-> i, span |-> span, time |-> time,
                    id |-> booking[1].id, value |-> booking[1].department]>>
                 \o ExportCellsInclusiveEnd(slots, dayBookings, i + span)
         ELSE <<[kind |-> "empty", col |-> i, span |-> 1, time |-> time,
                 id |-> NoId, value |-> ""]>>
              \o ExportCellsInclusiveEnd(slots, dayBookings, i + 1)

RECURSIVE ExportCellsFrom(_, _, _)
ExportCellsFrom(slots, dayBookings, i) ==
    IF ~(i < Len(displayTimeSlots(slots))) THEN <<>>
    ELSE
      LET time == slots[i + 1]
          booking == findStartingAt(dayBookings, time)
      IN IF booking # <<>>
         THEN LET startTimeIndex == indexOf(slots, booking[1].time)
                  endTimeIndex == indexOf(slots, booking[1].endTime)
                  span == IF endTimeIndex > startTimeIndex
                          THEN endTimeIndex - startTimeIndex ELSE 1
              IN <<[kind |-> "booking", col |-> i, span |-> span, time |-> time,
                    id |-> booking[1].id, value |-> booking[1].department]>>
                 \o ExportCellsFrom(slots, dayBookings, i + span)
         ELSE <<[kind |-> "empty", col |-> i, span |-> 1, time |-> time,
                 id |-> NoId, value |-> ""]>>
              \o ExportCellsFrom(slots, dayBookings, i + 1)

\* row.push(booking.department), row.push(null) span - 1 times; row.push('')
RECURSIVE slotEntries(_)
slotEntries(cells) ==
    IF cells = <<>> THEN <<>>
    ELSE <<cells[1].value>> \o [j \in 1..(cells[1].span - 1) |-> Null]
         \o slotEntries(Tail(cells))

\* mutant: the region ends one column past the span
mergeOfOnePastEnd(cell, rowIndex) ==
    [s |-> [r |-> rowIndex, c |-> 3 + cell.col],
     e |-> [r |-> rowIndex, c |-> 3 + cell.col + cell.span]]

\* merges.push({s: {r: rowIndex, c: 3 + i}, e: {r: rowIndex, c: 3 + i + span - 1}})
mergeOf(cell, rowIndex) ==
    [s |-> [r |-> rowIndex, c |-> 3 + cell.col],
     e |-> [r |-> rowIndex, c |-> 3 + cell.col + cell.span - 1]]

RECURSIVE rowMerges(_, _)
rowMerges(cells, rowIndex) ==
    IF cells = <<>> THEN <<>>
    ELSE (IF cells[1].kind = "booking" /\ cells[1].span > 1
          THEN <<mergeOf(cells[1], rowIndex)>> ELSE <<>>)
         \o rowMerges(Tail(cells), rowIndex)

\* dayBookings.map(b => b.notes).filter(Boolean), before the join
notesOf(dayBookings) ==
    LET NonEmpty(n) == n # ""
    IN SelectSeq([j \in 1..Len(dayBookings) |-> dayBookings[j].notes], NonEmpty)

\* the data row pushed to sheetData and the merges pushed for one day
exportDay(slots, dayBookings, rowIndex, leading) ==
    LET cells == ExportCellsFrom(slots, dayBookings, 0)
    IN [cells |-> cells,
        row |-> leading \o slotEntries(cells) \o <<notesOf(dayBookings)>>,
        merges |-> rowMerges(cells, rowIndex)]

\* mutant: the export takes the day's bookings of every hall
exportBookingsAnyHall(bks, hall, formattedDate) ==
    LET OnDay(b) == b.date = formattedDate IN SelectSeq(bks, OnDay)

\* filteredBookings.filter(b => b.date === formattedDate), filteredBookings
\* being bookings.filter(b => b.hallId === selectedHall)
exportBookingsOfDay(bks, hall, formattedDate) ==
    LET OfHall(b) == b.hallId = hall
        OnDay(b) == b.date = formattedDate
    IN SelectSeq(SelectSeq(bks, OfHall), OnDay)

\* what handleExportToExcel builds for the n-th day of the displayed month:
\* rows 0..3 of the sheet are the title, a blank row and the two header rows
exportedDay(n) ==
    exportDay(timeSlots,
              exportBookingsOfDay(bookings, selectedHall, formatToYYYYMMDD(daysInMonth[n])),
              3 + n,
              <<n, "day", "date">>)

(***************************************************************************)
(* App: monthlyBookingCounts.  The prefix 'YYYY-MM' of a date key is the   *)
(* number YYYYMM; a key starts with it when its first six digits are it.   *)
(***************************************************************************)
\* mutant: getMonth() is taken as the calendar month
yearMonthPrefixZeroBased(date) == date.year * 100 + date.month

\* `${year}-${String(month).padStart(2, '0')}` with month = getMonth() + 1
yearMonthPrefix(date) == date.year * 100 + (date.month + 1)

\* booking.date.startsWith(prefix)
startsWith(dateKey, prefix) == dateKey \div 100 = prefix

\* the for loop: counts[booking.hallId]++ for the bookings of the month
RECURSIVE countBookings(_, _, _)
countBookings(acc, bks, prefix) ==
    IF bks = <<>> THEN acc
    ELSE countBookings(IF startsWith(bks[1].date, prefix)
                       THEN [acc EXCEPT ![bks[1].hallId] = @ + 1] ELSE acc,
                       Tail(bks), prefix)

monthlyBookingCounts(bks, date) ==
    countBookings([hall \in Hall |-> 0], bks, yearMonthPrefix(date))

(***************************************************************************)
(* What the user does: the days and slots clicked and the values typed.    *)
(***************************************************************************)
UserDays ==
    {day \in {AddDays(Today, n) : n \in 0..DaySpan} :
        \E i \in 1..Len(daysInMonth) : daysInMonth[i] = day}

UserSlots == {timeSlots[i] : i \in 1..UserSlotMax}

DepartmentInputs == {" ", "Ops"}

NotesInputs == {"memo"}

MonthInputs == {Today.m, Today.m + 1}

(***************************************************************************)
(* App: the modal.                                                         *)
(***************************************************************************)
getModalInitialData(mi) ==
    IF mi.bookingToEdit # <<>>
    THEN [date |-> mi.bookingToEdit[1].date,
          time |-> mi.bookingToEdit[1].time,
          endTime |-> mi.bookingToEdit[1].endTime,
          department |-> mi.bookingToEdit[1].department,
          notes |-> mi.bookingToEdit[1].notes]
    ELSE LET startTimeIndex == indexOf(timeSlots, mi.time)
             defaultEndTime ==
                 IF startTimeIndex # -1 /\ startTimeIndex + 1 < Len(timeSlots)
                 THEN timeSlots[startTimeIndex + 2] ELSE 0
         IN [date |-> formatToYYYYMMDD(mi.date[1]),
             time |-> mi.time,
             endTime |-> defaultEndTime,
             department |-> "",
             notes |-> ""]

\* BookingModal's effect on [initialData]: the form takes the initial data
FormTakes(initialData) ==
    /\ department' = initialData.department
    /\ notes' = initialData.notes
    /\ endTime' = initialData.endTime
    /\ error' = ""

\* BookingModal unmounted: no form
FormGone ==
    /\ department' = ""
    /\ notes' = ""
    /\ endTime' = 0
    /\ error' = ""

\* App re-rendered: an open modal gets a new initialData object
FormAfterRender ==
    IF modalInfo.isOpen THEN FormTakes(getModalInitialData(modalInfo))
    ELSE UNCHANGED <<department, notes, endTime, error>>

\* the modal's backdrop covers the page: a cell is clicked only while it is closed
handleCellClick(date, time) ==
    /\ UNCHANGED fnVars
    /\ ~modalInfo.isOpen
    \* bound: no create form is opened once MaxCreates bookings were created
    /\ created < MaxCreates
    /\ LET row == RenderedRow(date)
       IN \E i \in 1..Len(row) : row[i].kind = "empty" /\ row[i].time = time
    /\ modalInfo' = [isOpen |-> TRUE, bookingToEdit |-> <<>>, date |-> <<date>>, time |-> time]
    /\ FormTakes(getModalInitialData(modalInfo'))
    /\ UNCHANGED <<selectedHall, currentDate, bookings, clock, everIds, created>>

handleBookingClick(bookingId) ==
    /\ UNCHANGED fnVars
    /\ ~modalInfo.isOpen
    /\ \E day \in UserDays :
          LET row == RenderedRow(day)
          IN \E i \in 1..Len(row) : row[i].kind = "booking" /\ row[i].id = bookingId
    /\ LET bookingToEdit == findById(bookings, bookingId)
       IN IF bookingToEdit # <<>>
          THEN /\ modalInfo' = [isOpen |-> TRUE, bookingToEdit |-> bookingToEdit,
                                date |-> <<>>, time |-> 0]
               /\ FormTakes(getModalInitialData(modalInfo'))
          ELSE UNCHANGED <<modalInfo, department, notes, endTime, error>>
    /\ UNCHANGED <<selectedHall, currentDate, bookings, clock, everIds, created>>

handleCloseModal ==
    /\ UNCHANGED fnVars
    /\ modalInfo.isOpen
    /\ modalInfo' = ModalClosed
    /\ FormGone
    /\ UNCHANGED <<selectedHall, currentDate, bookings, clock, everIds, created>>

(***************************************************************************)
(* BookingModal: the form.                                                 *)
(***************************************************************************)
availableEndTimes(initialData) ==
    LET startTimeIndex == indexOf(timeSlots, initialData.time)
    IN IF startTimeIndex # -1
       THEN {timeSlots[i] : i \in (startTimeIndex + 2)..Len(timeSlots)}
       ELSE {}

setDepartment(v) ==
    /\ UNCHANGED fnVars
    /\ modalInfo.isOpen
    /\ v # department
    /\ department' = v
    /\ UNCHANGED <<selectedHall, currentDate, bookings, modalInfo, endTime, notes,
                   error, clock, everIds, created>>

setEndTime(v) ==
    /\ UNCHANGED fnVars
    /\ modalInfo.isOpen
    /\ v \in availableEndTimes(getModalInitialData(modalInfo))
    /\ v # endTime
    /\ endTime' = v
    /\ UNCHANGED <<selectedHall, currentDate, bookings, modalInfo, department, notes,
                   error, clock, everIds, created>>

setNotes(v) ==
    /\ UNCHANGED fnVars
    /\ modalInfo.isOpen
    /\ v # notes
    /\ notes' = v
    /\ UNCHANGED <<selectedHall, currentDate, bookings, modalInfo, department, endTime,
                   error, clock, everIds, created>>

DepartmentMessage == "department required"
EndTimeMessage == "end time required"
EndAfterStartMessage == "end must be after start"
ConflictMessage == "booking conflict"

\* the department check without trim()
validateNoTrim(dep, end, initialData) ==
    IF dep = "" THEN DepartmentMessage
    ELSE IF end = 0 THEN EndTimeMessage
    ELSE IF end <= initialData.time THEN EndAfterStartMessage
    ELSE ""

\* BookingModal.handleSave's checks: the message thrown, or "" when none is
validate(dep, end, initialData) ==
    IF trim(dep) = "" THEN DepartmentMessage
    ELSE IF end = 0 THEN EndTimeMessage
    ELSE IF end <= initialData.time THEN EndAfterStartMessage
    ELSE ""

(***************************************************************************)
(* App: the store.                                                         *)
(***************************************************************************)
\* the overlap test taken for containment: only a booking inside another clashes
hasConflictContained(bks, bookingToEdit, currentHall, bookingData) ==
    LET Clash(b) ==
          IF bookingToEdit # <<>> /\ b.id = bookingToEdit[1].id THEN FALSE
          ELSE IF b.hallId = currentHall /\ b.date = bookingData.date
               THEN bookingData.time >= b.time /\ bookingData.endTime <= b.endTime
               ELSE FALSE
    IN \E i \in 1..Len(bks) : Clash(bks[i])

\* the self exclusion widened to the whole edit: an edit is never checked
hasConflictSkipsEdit(bks, bookingToEdit, currentHall, bookingData) ==
    LET Clash(b) ==
          IF bookingToEdit # <<>> THEN FALSE
          ELSE IF b.hallId = currentHall /\ b.date = bookingData.date
               THEN bookingData.time < b.endTime /\ bookingData.endTime > b.time
               ELSE FALSE
    IN \E i \in 1..Len(bks) : Clash(bks[i])

\* mutant: intervals that only touch count as overlapping
hasConflictTouching(bks, bookingToEdit, currentHall, bookingData) ==
    LET Clash(b) ==
          IF bookingToEdit # <<>> /\ b.id = bookingToEdit[1].id THEN FALSE
          ELSE IF b.hallId = currentHall /\ b.date = bookingData.date
               THEN bookingData.time <= b.endTime /\ bookingData.endTime >= b.time
               ELSE FALSE
    IN \E i \in 1..Len(bks) : Clash(bks[i])

\* the self exclusion left out
hasConflictNoSelf(bks, bookingToEdit, currentHall, bookingData) ==
    LET Clash(b) ==
          IF b.hallId = currentHall /\ b.date = bookingData.date
          THEN bookingData.time < b.endTime /\ bookingData.endTime > b.time
          ELSE FALSE
    IN \E i \in 1..Len(bks) : Clash(bks[i])

hasConflict(bks, bookingToEdit, currentHall, bookingData) ==
    LET Clash(b) ==
          IF bookingToEdit # <<>> /\ b.id = bookingToEdit[1].id THEN FALSE
          ELSE IF b.hallId = currentHall /\ b.date = bookingData.date
               THEN bookingData.time < b.endTime /\ bookingData.endTime > b.time
               ELSE FALSE
    IN \E i \in 1..Len(bks) : Clash(bks[i])

\* { ...bookingToEdit, ...bookingData }
updatedBooking(bookingToEdit, bookingData) ==
    [id |-> bookingToEdit.id, hallId |-> bookingToEdit.hallId,
     date |-> bookingData.date, time |-> bookingData.time,
     endTime |-> bookingData.endTime, department |-> bookingData.department,
     notes |-> bookingData.notes]

\* bookings.map(b => b.id === bookingToEdit.id ? {...} : b)
updateBookings(bks, bookingToEdit, bookingData) ==
    [i \in 1..Len(bks) |->
        IF bks[i].id = bookingToEdit.id
        THEN updatedBooking(bookingToEdit, bookingData) ELSE bks[i]]

\* the end time taken from the start time
newBookingEndIsStart(bookingData, now, hall) ==
    [id |-> toISOString(now), hallId |-> hall,
     date |-> bookingData.date, time |-> bookingData.time,
     endTime |-> bookingData.time, department |-> bookingData.department,
     notes |-> bookingData.notes]

newBooking(bookingData, now, hall) ==
    [id |-> toISOString(now), hallId |-> hall,
     date |-> bookingData.date, time |-> bookingData.time,
     endTime |-> bookingData.endTime, department |-> bookingData.department,
     notes |-> bookingData.notes]

\* [...bookings, newBooking]
createBooking(bks, bookingData, now, hall) ==
    Append(bks, newBooking(bookingData, now, hall))

\* bookings.filter(b => b.id !== bookingToEdit.id)
deleteBooking(bks, bookingToEdit) ==
    LET Keep(b) == b.id # bookingToEdit.id IN SelectSeq(bks, Keep)

\* BookingModal.handleSave calling App.handleSaveBooking
handleSave ==
    /\ UNCHANGED fnVars
    /\ modalInfo.isOpen
    /\ LET initialData == getModalInitialData(modalInfo)
           message == validate(department, endTime, initialData)
           bookingData == [date |-> initialData.date, time |-> initialData.time,
                           endTime |-> endTime, department |-> department,
                           notes |-> notes]
           currentHall == IF modalInfo.bookingToEdit # <<>>
                          THEN modalInfo.bookingToEdit[1].hallId ELSE selectedHall
       IN IF message # ""
          THEN /\ error' = message
               /\ UNCHANGED <<selectedHall, currentDate, bookings, modalInfo, department,
                              endTime, notes, clock, everIds, created>>
          ELSE IF hasConflict(bookings, modalInfo.bookingToEdit, currentHall, bookingData)
          THEN /\ error' = ConflictMessage
               /\ UNCHANGED <<selectedHall, currentDate, bookings, modalInfo, department,
                              endTime, notes, clock, everIds, created>>
          ELSE IF modalInfo.bookingToEdit # <<>>
          THEN /\ bookings' = updateBookings(bookings, modalInfo.bookingToEdit[1], bookingData)
               /\ modalInfo' = ModalClosed
               /\ FormGone
               /\ UNCHANGED <<selectedHall, currentDate, clock, everIds, created>>
          ELSE /\ created < MaxCreates
               /\ \E now \in clock..MaxClock :
                     /\ bookings' = createBooking(bookings, bookingData, now, selectedHall)
                     /\ clock' = now
                     /\ everIds' = everIds \cup {toISOString(now)}
               /\ created' = created + 1
               /\ modalInfo' = ModalClosed
               /\ FormGone
               /\ UNCHANGED <<selectedHall, currentDate>>

\* mutant: the booking is deleted and the modal stays open on it
handleDeleteKeepsModal ==
    /\ UNCHANGED fnVars
    /\ modalInfo.isOpen
    /\ modalInfo.bookingToEdit # <<>>
    /\ bookings' = deleteBooking(bookings, modalInfo.bookingToEdit[1])
    /\ UNCHANGED <<modalInfo, department, notes, endTime, error>>
    /\ UNCHANGED <<selectedHall, currentDate, clock, everIds, created>>

handleDeleteBooking ==
    /\ UNCHANGED fnVars
    /\ modalInfo.isOpen
    /\ modalInfo.bookingToEdit # <<>>
    /\ bookings' = deleteBooking(bookings, modalInfo.bookingToEdit[1])
    /\ modalInfo' = ModalClosed
    /\ FormGone
    /\ UNCHANGED <<selectedHall, currentDate, clock, everIds, created>>

(***************************************************************************)
(* App: the selection.                                                     *)
(***************************************************************************)
setSelectedHall(hall) ==
    /\ UNCHANGED fnVars
    /\ hall # selectedHall
    /\ selectedHall' = hall
    /\ FormAfterRender
    /\ UNCHANGED <<currentDate, bookings, modalInfo, clock, everIds, created>>

handleMonthChange(newMonth) ==
    /\ UNCHANGED fnVars
    /\ newMonth # currentDate.month
    /\ currentDate' = [year |-> currentDate.year, month |-> newMonth]
    /\ FormAfterRender
    /\ UNCHANGED <<selectedHall, bookings, modalInfo, clock, everIds, created>>

Next ==
    \/ \E date \in UserDays : \E time \in UserSlots : handleCellClick(date, time)
    \/ \E i \in 1..Len(bookings) : handleBookingClick(bookings[i].id)
    \/ handleCloseModal
    \/ \E v \in DepartmentInputs : setDepartment(v)
    \/ \E v \in UserSlots : setEndTime(v)
    \/ \E v \in NotesInputs : setNotes(v)
    \/ handleSave
    \/ handleDeleteBooking
    \/ \E hall \in Hall : setSelectedHall(hall)
    \/ \E m \in MonthInputs : handleMonthChange(m)

Spec == Init /\ [][Next]_vars

(***************************************************************************)
(* The same program with the user at the edges of the day: the cell before *)
(* the 09:00 booking of the initial data and the last column, whose end    *)
(* is the sentinel label.                                                  *)
(***************************************************************************)
EdgeSlots == {timeSlots[2], timeSlots[Len(timeSlots) - 1]}

EdgeEndInputs == {timeSlots[3], timeSlots[Len(timeSlots)]}

EdgeNext ==
    \/ \E date \in UserDays : \E time \in EdgeSlots : handleCellClick(date, time)
    \/ \E i \in 1..Len(bookings) : handleBookingClick(bookings[i].id)
    \/ handleCloseModal
    \/ \E v \in DepartmentInputs : setDepartment(v)
    \/ \E v \in EdgeEndInputs : setEndTime(v)
    \/ \E v \in NotesInputs : setNotes(v)
    \/ handleSave
    \/ handleDeleteBooking
    \/ \E hall \in Hall : setSelectedHall(hall)
    \/ \E m \in MonthInputs : handleMonthChange(m)

EdgeSpec == Init /\ [][EdgeNext]_vars

(***************************************************************************)
(* The layout of one day as a function of its inputs: ScheduleTable's row  *)
(* and the export's data row for any slot list and any bookings of a day.  *)
(* `layout` holds the inputs and, once computed, the outputs.              *)
(***************************************************************************)
SlotListInputs == {SubSeq(timeSlots, 1, n) : n \in 1..MaxSlotLabels}

TimeInputs == {timeSlots[n] : n \in 1..MaxSlotLabels}

\* the j-th booking of the day, starting at t and ending at e
DayBookingInput(j, t, e) ==
    [id |-> <<"lit", j>>, hallId |-> AlWaha, date |-> formatToYYYYMMDD(Today),
     time |-> t, endTime |-> e, department |-> "HR",
     notes |-> IF j % 2 = 1 THEN "memo" ELSE ""]

RECURSIVE DayBookingsOfLen(_)
DayBookingsOfLen(n) ==
    IF n = 0 THEN {<<>>}
    ELSE {Append(bks, DayBookingInput(n, t, e)) :
             bks \in DayBookingsOfLen(n - 1), t \in TimeInputs, e \in TimeInputs}

DayBookingInputs == UNION {DayBookingsOfLen(n) : n \in 0..MaxDayBookings}

\* sheetData.length when the day's row is pushed: four header rows, then the days
RowIndexInputs == {4, 5}

LayoutInit ==
    /\ AppInit
    /\ ColorInit
    /\ counts = <<>>
    /\ \E slots \in SlotListInputs : \E dayBookings \in DayBookingInputs :
       \E rowIndex \in RowIndexInputs :
          layout = [slots |-> slots, dayBookings |-> dayBookings,
                    rowIndex |-> rowIndex, grid |-> <<>>, sheet |-> <<>>]

\* ScheduleTable renders the day's row
renderRow ==
    /\ layout.grid = <<>>
    /\ layout' = [layout EXCEPT
                    !.grid = <<RowCellsFrom(layout.slots, layout.dayBookings, 0)>>]
    /\ LET refs == colorsAfter([map |-> bookingColorMap, last |-> lastColorIndex],
                               RowColorCalls(layout.slots, layout.dayBookings, 0))
       IN bookingColorMap' = refs.map /\ lastColorIndex' = refs.last
    /\ UNCHANGED <<appVars, counts>>

\* handleExportToExcel builds the day's data row and merges
exportRow ==
    /\ layout.sheet = <<>>
    /\ layout' = [layout EXCEPT
                    !.sheet = <<exportDay(layout.slots, layout.dayBookings,
                                          layout.rowIndex,
                                          <<layout.rowIndex - 3, "day", "date">>)>>]
    /\ UNCHANGED <<appVars, counts, bookingColorMap, lastColorIndex>>

LayoutNext == renderRow \/ exportRow

LayoutSpec == LayoutInit /\ [][LayoutNext]_vars

(***************************************************************************)
(* The colours over a session: whatever bookings are added, edited or      *)
(* deleted, the layout passes are a sequence of getBookingColor calls.     *)
(***************************************************************************)
ColorIdInputs == {<<"iso", n>> : n \in 1..MaxColorIds}

\* ids are opaque: the ones not met yet are taken nearly in order
MetNearlyInOrder(bookingId) ==
    \/ hasColor(bookingColorMap, bookingId)
    \/ Cardinality({n \in 1..(bookingId[2] - 1) :
                       ~hasColor(bookingColorMap, <<"iso", n>>)}) < NewIdWindow

\* a cell of the booking is laid out
layoutCell(bookingId) ==
    /\ MetNearlyInOrder(bookingId)
    /\ LET refs == getBookingColor([map |-> bookingColorMap, last |-> lastColorIndex],
                                   bookingId)
       IN bookingColorMap' = refs.map /\ lastColorIndex' = refs.last
    /\ UNCHANGED <<appVars, layout, counts>>

ColorNext == \E bookingId \in ColorIdInputs : layoutCell(bookingId)

ColorSpec == Init /\ [][ColorNext]_vars

(***************************************************************************)
(* The monthly counts as a function of the store and the displayed month.  *)
(***************************************************************************)
\* days of two months of one year, of the same month of the next year and
\* of a two digit month
CountDayInputs ==
    {Today, AddDays(Today, 2),
     [y |-> Today.y + 1, m |-> Today.m, d |-> Today.d],
     [y |-> Today.y, m |-> 10, d |-> 1]}

StoredBookingInput(hall, day) ==
    [id |-> <<"lit", 1>>, hallId |-> hall, date |-> formatToYYYYMMDD(day),
     time |-> timeSlots[1], endTime |-> timeSlots[2], department |-> "HR", notes |-> ""]

RECURSIVE StoresOfLen(_)
StoresOfLen(n) ==
    IF n = 0 THEN {<<>>}
    ELSE {Append(bks, [StoredBookingInput(hall, day) EXCEPT !.id = <<"lit", n>>]) :
             bks \in StoresOfLen(n - 1), hall \in Hall, day \in CountDayInputs}

StoreInputs == UNION {StoresOfLen(n) : n \in 0..MaxStoreInputs}

CountInit ==
    /\ selectedHall = AlWaha
    /\ \E day \in CountDayInputs : currentDate = [year |-> day.y, month |-> day.m]
    /\ bookings \in StoreInputs
    /\ modalInfo = ModalClosed
    /\ department = ""
    /\ endTime = 0
    /\ notes = ""
    /\ error = ""
    /\ clock = 0
    /\ everIds = {}
    /\ created = 0
    /\ ColorInit
    /\ layout = <<>>
    /\ counts = <<>>

\* App renders the counts of the displayed month
renderCounts ==
    /\ counts = <<>>
    /\ counts' = <<monthlyBookingCounts(bookings, currentDate)>>
    /\ UNCHANGED <<appVars, layout, bookingColorMap, lastColorIndex>>

CountNext == renderCounts

CountSpec == CountInit /\ [][CountNext]_vars

(***************************************************************************)
(* Vocabulary of the properties.                                           *)
(***************************************************************************)
\* A and B overlap when A.start < B.end and A.end > B.start
Overlap(aStart, aEnd, bStart, bEnd) == aStart < bEnd /\ aEnd > bStart

OpenForCreate == modalInfo.isOpen /\ modalInfo.bookingToEdit = <<>>

OpenForEdit == modalInfo.isOpen /\ modalInfo.bookingToEdit # <<>>

\* the start the open form submits, and the date it submits
FormStart ==
    IF OpenForEdit THEN modalInfo.bookingToEdit[1].time ELSE modalInfo.time

FormDate ==
    IF OpenForEdit THEN modalInfo.bookingToEdit[1].date
    ELSE formatToYYYYMMDD(modalInfo.date[1])

BlankDepartment == department \in {"", " "}

FormValid == ~BlankDepartment /\ endTime # 0 /\ endTime > FormStart

StoreIds == {bookings[i].id : i \in 1..Len(bookings)}

\* the form's interval overlaps a stored booking of the selected hall on its date
CreateClashes ==
    \E i \in 1..Len(bookings) :
        /\ bookings[i].hallId = selectedHall
        /\ bookings[i].date = FormDate
        /\ Overlap(FormStart, endTime, bookings[i].time, bookings[i].endTime)

\* the form's interval overlaps another booking of the edited booking's hall and date
EditClashes ==
    \E i \in 1..Len(bookings) :
        /\ bookings[i].id # modalInfo.bookingToEdit[1].id
        /\ bookings[i].hallId = modalInfo.bookingToEdit[1].hallId
        /\ bookings[i].date = modalInfo.bookingToEdit[1].date
        /\ Overlap(FormStart, endTime, bookings[i].time, bookings[i].endTime)

FormKept ==
    /\ department' = department
    /\ endTime' = endTime
    /\ notes' = notes

(***************************************************************************)
(* C1: no two distinct bookings of the store with the same hall and the    *)
(* same date overlap, in every reachable state.                            *)
(***************************************************************************)
C1_NoOverlap ==
    \A i, j \in 1..Len(bookings) :
        (i # j /\ bookings[i].hallId = bookings[j].hallId
               /\ bookings[i].date = bookings[j].date)
        => ~Overlap(bookings[i].time, bookings[i].endTime,
                    bookings[j].time, bookings[j].endTime)

(***************************************************************************)
(* C2: saving a new booking whose interval overlaps a booking of the       *)
(* selected hall on the same date is rejected with the conflict message;   *)
(* the store is exactly what it was and the modal stays open for create.   *)
(***************************************************************************)
C2_CreateConflictRejected ==
    [][(handleSave /\ OpenForCreate /\ FormValid /\ CreateClashes)
         => /\ bookings' = bookings
            /\ modalInfo' = modalInfo
            /\ error' = ConflictMessage
            /\ FormKept]_vars

C2_Witness ==
    /\ OpenForCreate
    /\ error = ConflictMessage
    /\ FormValid
    /\ CreateClashes

(***************************************************************************)
(* C3: saving an edit whose interval overlaps another booking (another id) *)
(* of the same hall and date fails with the conflict message, leaves every *)
(* record untouched, and the modal stays open for edit on the same booking.*)
(***************************************************************************)
C3_EditConflictRejected ==
    [][(handleSave /\ OpenForEdit /\ FormValid /\ EditClashes)
         => /\ bookings' = bookings
            /\ modalInfo' = modalInfo
            /\ error' = ConflictMessage
            /\ FormKept]_vars

C3_Witness ==
    /\ OpenForEdit
    /\ error = ConflictMessage
    /\ FormValid
    /\ EditClashes

(***************************************************************************)
(* C4: ids are pairwise distinct in the store, and the id of a newly       *)
(* created booking differs from every id that has ever been in the store.  *)
(***************************************************************************)
IdsDistinct(bks) ==
    \A i, j \in 1..Len(bks) : i # j => bks[i].id # bks[j].id

C4_IdsUniqueNeverReused ==
    /\ IdsDistinct(bookings)
    /\ [][/\ IdsDistinct(bookings')
          /\ (handleSave /\ OpenForCreate /\ ~modalInfo'.isOpen)
               => bookings'[Len(bookings')].id \notin everIds]_vars

(***************************************************************************)
(* C5: an edit that overlaps no booking but the edited one succeeds: the   *)
(* booking is never reported as conflicting with its own stored record.    *)
(***************************************************************************)
C5_EditSelfExcluded ==
    [][(handleSave /\ OpenForEdit /\ FormValid /\ ~EditClashes)
         => /\ modalInfo' = ModalClosed
            /\ error' = ""
            /\ \E i \in 1..Len(bookings') :
                  /\ bookings'[i].id = modalInfo.bookingToEdit[1].id
                  /\ bookings'[i].endTime = endTime
                  /\ bookings'[i].department = department
                  /\ bookings'[i].notes = notes]_vars

\* the first initial booking, which overlaps itself, was edited and saved
C5_Witness ==
    /\ ~modalInfo.isOpen
    /\ \E i \in 1..Len(bookings) :
          /\ bookings[i].id = <<"lit", 1>>
          /\ bookings[i].notes = "memo"
          /\ bookings[i].time = 900
          /\ bookings[i].endTime = 1100

(***************************************************************************)
(* C6: a validation failure (blank department, no end time, end not after  *)
(* start) leaves the store unchanged and the modal open in the same mode,  *)
(* and shows a validation message, never the conflict check's.             *)
(***************************************************************************)
C6_ValidationBeforeStore ==
    [][(handleSave /\ modalInfo.isOpen /\ ~FormValid)
         => /\ bookings' = bookings
            /\ modalInfo' = modalInfo
            /\ everIds' = everIds
            /\ created' = created
            /\ error' \in {DepartmentMessage, EndTimeMessage, EndAfterStartMessage}
            /\ FormKept]_vars

\* a blank department was refused on a form whose interval would also clash
C6_Witness ==
    /\ OpenForCreate
    /\ BlankDepartment
    /\ error = DepartmentMessage
    /\ CreateClashes

(***************************************************************************)
(* C7: every booking of the store has start < end, in every reachable      *)
(* state.                                                                  *)
(***************************************************************************)
C7_StartBeforeEnd ==
    \A i \in 1..Len(bookings) : bookings[i].time < bookings[i].endTime

\* a created booking and an edited booking are in the store
C7_Witness ==
    /\ \E i \in 1..Len(bookings) : bookings[i].id[1] = "iso"
    /\ \E i \in 1..Len(bookings) :
          bookings[i].id = <<"lit", 1>> /\ bookings[i].department = "Ops"

(***************************************************************************)
(* C8: a successful create appends exactly one booking, with a new id, the *)
(* selected hall and the submitted date, start, end, department and notes; *)
(* the bookings stored before keep their fields and order.                 *)
(***************************************************************************)
C8_CreateAppendsOne ==
    [][(handleSave /\ OpenForCreate /\ ~modalInfo'.isOpen)
         => /\ Len(bookings') = Len(bookings) + 1
            /\ SubSeq(bookings', 1, Len(bookings)) = bookings
            /\ LET b == bookings'[Len(bookings')]
               IN /\ b.id \notin StoreIds
                  /\ b.hallId = selectedHall
                  /\ b.date = FormDate
                  /\ b.time = FormStart
                  /\ b.endTime = endTime
                  /\ b.department = department
                  /\ b.notes = notes]_vars

(***************************************************************************)
(* C9: a successful edit keeps the edited record's id, hall, date, start   *)
(* and position, changes at most its end, department and notes, and leaves *)
(* every other record unchanged.                                           *)
(***************************************************************************)
C9_EditInPlace ==
    [][(handleSave /\ OpenForEdit /\ ~modalInfo'.isOpen)
         => /\ Len(bookings') = Len(bookings)
            /\ \E i \in 1..Len(bookings) :
                  /\ bookings[i] = modalInfo.bookingToEdit[1]
                  /\ bookings'[i].id = bookings[i].id
                  /\ bookings'[i].hallId = bookings[i].hallId
                  /\ bookings'[i].date = bookings[i].date
                  /\ bookings'[i].time = bookings[i].time
                  /\ \A j \in 1..Len(bookings) : j # i => bookings'[j] = bookings[j]]_vars

(***************************************************************************)
(* C10: deleting from the edit modal removes exactly one booking: none     *)
(* with the edited id is left, the others keep their fields and order, and *)
(* the modal is closed.                                                    *)
(***************************************************************************)
C10_DeleteRemovesOne ==
    [][(handleDeleteBooking /\ OpenForEdit)
         => /\ modalInfo' = ModalClosed
            /\ Len(bookings') = Len(bookings) - 1
            /\ \A j \in 1..Len(bookings') :
                  bookings'[j].id # modalInfo.bookingToEdit[1].id
            /\ \E i \in 1..Len(bookings) :
                  /\ bookings[i].id = modalInfo.bookingToEdit[1].id
                  /\ bookings' = SubSeq(bookings, 1, i - 1)
                                   \o SubSeq(bookings, i + 1, Len(bookings))]_vars

(***************************************************************************)
(* C11: the modal starts Closed and moves only Closed -> OpenForCreate on  *)
(* an empty-cell click (carrying that day and slot), Closed -> OpenForEdit *)
(* on an occupied-cell click (carrying the booking of that cell),          *)
(* OpenForCreate -> Closed on save success or cancel, OpenForEdit ->       *)
(* Closed on save success, delete or cancel; a failed save leaves the      *)
(* modal as it was.                                                        *)
(***************************************************************************)
\* the booking ScheduleTable rendered in the occupied cell at `time` of `day`
BookingOfCell(day, time) ==
    LET OnDay(b) == b.hallId = selectedHall /\ b.date = formatToYYYYMMDD(day)
    IN findStartingAt(SelectSeq(bookings, OnDay), time)

OpensForCreate ==
    /\ ~modalInfo.isOpen
    /\ OpenForCreate'
    /\ \E day \in UserDays :
          LET row == RenderedRow(day)
          IN \E i \in 1..Len(row) :
                /\ row[i].kind = "empty"
                /\ modalInfo'.date = <<day>>
                /\ modalInfo'.time = row[i].time

OpensForEdit ==
    /\ ~modalInfo.isOpen
    /\ OpenForEdit'
    /\ \E day \in UserDays :
          LET row == RenderedRow(day)
          IN \E i \in 1..Len(row) :
                /\ row[i].kind = "booking"
                /\ modalInfo'.bookingToEdit = BookingOfCell(day, row[i].time)

ClosesFromCreate ==
    /\ OpenForCreate
    /\ modalInfo' = ModalClosed
    /\ \/ bookings' = bookings
       \/ Len(bookings') = Len(bookings) + 1

ClosesFromEdit ==
    /\ OpenForEdit
    /\ modalInfo' = ModalClosed
    /\ \/ bookings' = bookings
       \/ bookings' = deleteBooking(bookings, modalInfo.bookingToEdit[1])
       \/ \E i \in 1..Len(bookings') : bookings'[i].id = modalInfo.bookingToEdit[1].id

\* an occupied cell's click handler is handleBookingClick(booking.id)
OccupiedCellClickCarriesItsBooking ==
    \A day \in UserDays :
        LET row == RenderedRow(day)
        IN \A i \in 1..Len(row) :
              (row[i].kind = "booking" /\ handleBookingClick(row[i].id))
                  => modalInfo'.bookingToEdit = BookingOfCell(day, row[i].time)

C11_ModalTransitions ==
    /\ ~modalInfo.isOpen
    /\ [][ /\ modalInfo' # modalInfo
              => (OpensForCreate \/ OpensForEdit \/ ClosesFromCreate \/ ClosesFromEdit)
           /\ OccupiedCellClickCarriesItsBooking
           /\ (error' # error /\ error' # "") => modalInfo' = modalInfo
           /\ bookings' # bookings => (modalInfo.isOpen /\ modalInfo' = ModalClosed)
         ]_vars

(***************************************************************************)
(* Vocabulary of the layout properties.                                    *)
(***************************************************************************)
RECURSIVE SumOfSpans(_)
SumOfSpans(cells) ==
    IF cells = <<>> THEN 0 ELSE cells[1].span + SumOfSpans(Tail(cells))

GridDone == layout.grid # <<>>

SheetDone == layout.sheet # <<>>

\* the number of slot labels of the list laid out
SlotCount == Len(layout.slots)

(***************************************************************************)
(* C12: for any bookings of a day and N slot labels the on-screen row's    *)
(* cell spans sum to N-1, the exported data row has N-1 slot entries       *)
(* between its three leading columns and its notes column, and no cell of  *)
(* either starts at the last slot label.                                   *)
(***************************************************************************)
C12_RowCoversSlotColumns ==
    /\ GridDone =>
          LET cells == layout.grid[1]
          IN /\ SumOfSpans(cells) = SlotCount - 1
             /\ \A k \in 1..Len(cells) :
                   cells[k].col < SlotCount - 1 /\ cells[k].time # layout.slots[SlotCount]
    /\ SheetDone =>
          LET sheet == layout.sheet[1]
          IN /\ Len(sheet.row) = 3 + (SlotCount - 1) + 1
             /\ SumOfSpans(sheet.cells) = SlotCount - 1
             /\ \A k \in 1..Len(sheet.cells) :
                   /\ sheet.cells[k].col < SlotCount - 1
                   /\ sheet.cells[k].time # layout.slots[SlotCount]

\* both rows are built for a day with a booking spanning several columns, an
\* empty column and a booking that starts at the last label
C12_Witness ==
    /\ GridDone
    /\ SheetDone
    /\ SlotCount = MaxSlotLabels
    /\ \E k \in 1..Len(layout.grid[1]) :
          layout.grid[1][k].kind = "booking" /\ layout.grid[1][k].span > 1
    /\ \E k \in 1..Len(layout.sheet[1].cells) :
          layout.sheet[1].cells[k].kind = "booking" /\ layout.sheet[1].cells[k].span > 1
    /\ \E k \in 1..Len(layout.grid[1]) : layout.grid[1][k].kind = "empty"
    /\ \E j \in 1..Len(layout.dayBookings) :
          layout.dayBookings[j].time = layout.slots[SlotCount]

(***************************************************************************)
(* C13: an occupied cell's span is index(end) - index(start) in the slot   *)
(* sequence when that is positive and exactly 1 otherwise (end at or       *)
(* before start, or end not a slot label); no span is zero or negative.    *)
(***************************************************************************)
\* the booking of the day laid out that has this id (the inputs' ids differ)
DayBookingWithId(id) == findById(layout.dayBookings, id)[1]

\* index(end) - index(start) of a booking in the slot list laid out
IndexDifference(b) == indexOf(layout.slots, b.endTime) - indexOf(layout.slots, b.time)

SpansAsClaimed(cells) ==
    \A k \in 1..Len(cells) :
        /\ cells[k].span >= 1
        /\ cells[k].kind = "booking" =>
              LET d == IndexDifference(DayBookingWithId(cells[k].id))
              IN cells[k].span = IF d > 0 THEN d ELSE 1

C13_SpanIsIndexDifferenceOrOne ==
    /\ GridDone => SpansAsClaimed(layout.grid[1])
    /\ SheetDone => SpansAsClaimed(layout.sheet[1].cells)

\* both rows hold a cell of several columns, and the export holds the
\* one-column cell of a booking whose end is not after its start
C13_Witness ==
    /\ GridDone
    /\ SheetDone
    /\ \E k \in 1..Len(layout.grid[1]) :
          layout.grid[1][k].kind = "booking" /\ layout.grid[1][k].span > 1
    /\ \E k \in 1..Len(layout.sheet[1].cells) :
          LET cell == layout.sheet[1].cells[k]
          IN /\ cell.kind = "booking"
             /\ cell.span = 1
             /\ IndexDifference(DayBookingWithId(cell.id)) <= 0
    /\ \E k \in 1..Len(layout.sheet[1].cells) :
          layout.sheet[1].cells[k].kind = "booking" /\ layout.sheet[1].cells[k].span > 1

(***************************************************************************)
(* C14: for the same store, selected hall, month and slot list the export  *)
(* places every day's cells as the on-screen grid does: an occupied cell   *)
(* for the same booking at the same starting column with the same span,    *)
(* and an empty cell at the same columns.                                  *)
(***************************************************************************)
\* where the cells of a row lie: kind, starting column, span and booking
Placement(cells) ==
    LET row == cells
    IN [k \in 1..Len(row) |-> <<row[k].kind, row[k].col, row[k].span, row[k].id>>]

SamePlacement(gridCells, sheetCells) == Placement(gridCells) = Placement(sheetCells)

\* RenderedRow(daysInMonth[n]) and exportedDay(n).cells; the row of a day
\* without bookings is computed once
EmptyGridRow == RowCellsFrom(timeSlots, <<>>, 0)

EmptyExportCells == ExportCellsFrom(timeSlots, <<>>, 0)

GridCellsOn(formattedDate) ==
    LET OnDay(b) == b.hallId = selectedHall /\ b.date = formattedDate
        allDayBookings == SelectSeq(bookings, OnDay)
    IN IF allDayBookings = <<>> THEN EmptyGridRow
       ELSE RowCellsFrom(timeSlots, allDayBookings, 0)

ExportCellsOn(formattedDate) ==
    LET dayBookings == exportBookingsOfDay(bookings, selectedHall, formattedDate)
    IN IF dayBookings = <<>> THEN EmptyExportCells
       ELSE ExportCellsFrom(timeSlots, dayBookings, 0)

C14_ExportPlacesAsGrid ==
    LET days == daysInMonth
    IN \A n \in 1..Len(days) :
          LET formattedDate == formatToYYYYMMDD(days[n])
              gridCells == GridCellsOn(formattedDate)
              sheetCells == ExportCellsOn(formattedDate)
          IN SamePlacement(gridCells, sheetCells)

\* a displayed day holds a booking the user created next to one of several columns
C14_Witness ==
    \E n \in 1..Len(daysInMonth) :
        LET cells == exportedDay(n).cells
        IN /\ \E k \in 1..Len(cells) : cells[k].kind = "booking" /\ cells[k].span > 1
           /\ \E k \in 1..Len(cells) : cells[k].kind = "booking" /\ cells[k].id[1] = "iso"
           /\ SamePlacement(RenderedRow(daysInMonth[n]), cells)

(***************************************************************************)
(* C15: a booking occupying slot columns [c, c+k) of data row r gets the   *)
(* merge region (r, 3+c)-(r, 3+c+k-1) if and only if k > 1; no region is   *)
(* emitted for an empty cell or a one-column booking, and no two regions   *)
(* of the row intersect.                                                   *)
(***************************************************************************)
RegionOf(r, c, k) == [s |-> [r |-> r, c |-> 3 + c], e |-> [r |-> r, c |-> 3 + c + k - 1]]

MergeSet(sheet) == {sheet.merges[m] : m \in 1..Len(sheet.merges)}

\* the row holds the booking's value at column 3+c and placeholders after it
OccupiesColumns(sheet, cell) ==
    /\ sheet.row[3 + cell.col + 1] = cell.value
    /\ \A j \in 1..(cell.span - 1) : sheet.row[3 + cell.col + 1 + j] = Null

Intersect(a, b) == a.s.r = b.s.r /\ a.s.c <= b.e.c /\ b.s.c <= a.e.c

C15_MergesMatchSpans ==
    SheetDone =>
       LET sheet == layout.sheet[1]
           r == layout.rowIndex
       IN /\ \A k \in 1..Len(sheet.cells) :
                LET cell == sheet.cells[k]
                IN cell.kind = "booking" =>
                      /\ OccupiesColumns(sheet, cell)
                      /\ RegionOf(r, cell.col, cell.span) \in MergeSet(sheet)
                            <=> cell.span > 1
          /\ \A region \in MergeSet(sheet) :
                \E k \in 1..Len(sheet.cells) :
                    /\ sheet.cells[k].kind = "booking"
                    /\ sheet.cells[k].span > 1
                    /\ region = RegionOf(r, sheet.cells[k].col, sheet.cells[k].span)
          /\ \A m, n \in 1..Len(sheet.merges) :
                m # n => ~Intersect(sheet.merges[m], sheet.merges[n])

\* the exported row holds two merged bookings side by side
C15_Witness ==
    /\ SheetDone
    /\ LET sheet == layout.sheet[1]
       IN /\ Len(sheet.merges) = 2
          /\ sheet.merges[1].e.c + 1 = sheet.merges[2].s.c

(***************************************************************************)
(* C16: an id that has been given a colour keeps it in every later layout  *)
(* pass, and the k-th distinct id met gets palette entry (k-1) mod P, so   *)
(* ids first met one after the other differ in colour and the colours      *)
(* wrap after P ids.                                                       *)
(***************************************************************************)
PaletteLength == Len(bookingColors)

ColorsCyclic ==
    /\ \A k \in 1..Len(bookingColorMap) :
          bookingColorMap[k][2] = bookingColors[((k - 1) % PaletteLength) + 1]
    /\ \A k, m \in 1..Len(bookingColorMap) :
          k # m => bookingColorMap[k][1] # bookingColorMap[m][1]
    /\ \A k \in 1..(Len(bookingColorMap) - 1) :
          bookingColorMap[k][2] # bookingColorMap[k + 1][2]

ColorsKept ==
    \A bookingId \in ColorIdInputs :
        hasColor(bookingColorMap, bookingId) =>
            /\ hasColor(bookingColorMap', bookingId)
            /\ colorOf(bookingColorMap', bookingId) = colorOf(bookingColorMap, bookingId)

C16_ColorsStableAndCyclic == [](ColorsCyclic) /\ [][ColorsKept]_vars

\* more ids than the palette has entries were met: the colours wrapped
C16_Witness ==
    /\ Len(bookingColorMap) = PaletteLength + 2
    /\ bookingColorMap[PaletteLength + 1][2] = bookingColorMap[1][2]
    /\ bookingColorMap[PaletteLength + 2][2] = bookingColorMap[2][2]

(***************************************************************************)
(* C17: for any store the count shown for a hall is the number of stored   *)
(* bookings of that hall whose date key begins with the displayed          *)
(* year-month, and the counts of all halls sum to the number of stored     *)
(* bookings of that month.                                                 *)
(***************************************************************************)
\* the date key reads YYYY-MM-.. with the displayed year and calendar month
InDisplayedMonth(b) ==
    /\ b.date \div 10000 = currentDate.year
    /\ (b.date \div 100) % 100 = currentDate.month + 1

BookingsOfMonth == {i \in 1..Len(bookings) : InDisplayedMonth(bookings[i])}

C17_CountsAreMonthFilter ==
    counts # <<>> =>
       /\ \A hall \in Hall :
             counts[1][hall] =
                Cardinality({i \in BookingsOfMonth : bookings[i].hallId = hall})
       /\ counts[1][AlWaha] + counts[1][AlDana] = Cardinality(BookingsOfMonth)

\* counted: a store with a booking of the month in one hall, one of another
\* month and one of the same month of another year
C17_Witness ==
    /\ counts # <<>>
    /\ counts[1][AlDana] = 1
    /\ counts[1][AlWaha] = 0
    /\ \E i \in 1..Len(bookings) :
          /\ bookings[i].date \div 10000 = currentDate.year
          /\ ~InDisplayedMonth(bookings[i])
    /\ \E i \in 1..Len(bookings) :
          /\ bookings[i].date \div 10000 # currentDate.year
          /\ (bookings[i].date \div 100) % 100 = currentDate.month + 1

(***************************************************************************)
(* C18 is not stated: no reachable state has the modal open on a booking   *)
(* whose id is gone from the store (the store changes only through the     *)
(* modal's own save and delete, which close it).                           *)
(***************************************************************************)

(***************************************************************************)
(* C19: for the selected hall and every day of the displayed month, each   *)
(* stored booking of that hall on that day appears as exactly one occupied *)
(* cell of the day's on-screen row: none is skipped because its start is   *)
(* no scanned column or lies inside another booking's span, none is        *)
(* rendered through the empty-cell fallback.                               *)
(***************************************************************************)
\* the occupied cells of a row, and those that render the booking b
OccupiedCells(cells) == {k \in 1..Len(cells) : cells[k].kind = "booking"}

CellsOf(cells, b) ==
    {k \in OccupiedCells(cells) :
        /\ cells[k].id = b.id
        /\ cells[k].time = b.time
        /\ cells[k].span = indexOf(timeSlots, b.endTime) - indexOf(timeSlots, b.time)}

C19_EachBookingOneCell ==
    LET days == daysInMonth
    IN \A n \in 1..Len(days) :
          LET formattedDate == formatToYYYYMMDD(days[n])
              OnDay(b) == b.hallId = selectedHall /\ b.date = formattedDate
              allDayBookings == SelectSeq(bookings, OnDay)
              cells == GridCellsOn(formattedDate)
          IN /\ \A j \in 1..Len(allDayBookings) :
                   Cardinality(CellsOf(cells, allDayBookings[j])) = 1
             \* no cell stands for two bookings of the day
             /\ Cardinality(OccupiedCells(cells)) = Len(allDayBookings)

(***************************************************************************)
(* C20: clicking an empty cell (day d, slot s) of the on-screen grid and   *)
(* saving with a non-empty department and the pre-filled default end time  *)
(* (the label after s, the sentinel for the last column) raises no         *)
(* validation or conflict error: the booking [s, next(s)) is added to the  *)
(* selected hall.  As stated this fails when the hall is changed between   *)
(* the click and the save; it holds when (d, s) is still an empty cell of  *)
(* the grid on screen at the save.                                         *)
(***************************************************************************)
\* the label that follows s in the slot sequence
NextLabel(s) == timeSlots[indexOf(timeSlots, s) + 2]

\* the create form holds the end it was opened with and a department
DefaultFormFilled ==
    /\ OpenForCreate
    /\ ~BlankDepartment
    /\ endTime = NextLabel(modalInfo.time)

\* the cell the form was opened from is an empty cell of the grid on screen
ClickedCellStillEmpty ==
    /\ modalInfo.date[1] \in UserDays
    /\ LET cells == RenderedRow(modalInfo.date[1])
       IN \E k \in 1..Len(cells) :
             cells[k].kind = "empty" /\ cells[k].time = modalInfo.time

\* the step closes the modal and appends [s, next(s)) in the selected hall
SaveAddsBooking ==
    /\ modalInfo' = ModalClosed
    /\ Len(bookings') = Len(bookings) + 1
    /\ SubSeq(bookings', 1, Len(bookings)) = bookings
    /\ LET added == bookings'[Len(bookings')]
       IN /\ added.hallId = selectedHall
          /\ added.date = formatToYYYYMMDD(modalInfo.date[1])
          /\ added.time = modalInfo.time
          /\ added.endTime = NextLabel(modalInfo.time)
          /\ added.department = department

\* C20 as amended: the save of the default form of a cell that is still
\* empty on screen adds the booking
C20_EmptyCellDefaultSaves ==
    [][(handleSave /\ DefaultFormFilled /\ ClickedCellStillEmpty)
         => SaveAddsBooking]_vars

\* C20 as stated: every save of the default form of a clicked empty cell
\* adds the booking
C20_DefaultSaveAlwaysAdds ==
    [][(handleSave /\ DefaultFormFilled) => SaveAddsBooking]_vars

\* saved from the last column (ending at the sentinel) and from the cell
\* right before the 09:00 booking of the same hall and day
C20_Witness ==
    /\ ~modalInfo.isOpen
    /\ \E i, j \in 1..Len(bookings) :
          /\ bookings[i].id[1] = "iso"
          /\ bookings[i].time = timeSlots[Len(timeSlots) - 1]
          /\ bookings[i].endTime = timeSlots[Len(timeSlots)]
          /\ bookings[j].id[1] = "iso"
          /\ bookings[j].hallId = AlWaha
          /\ bookings[j].date = formatToYYYYMMDD(Today)
          /\ bookings[j].time = timeSlots[2]
          /\ bookings[j].endTime = timeSlots[3]

(***************************************************************************)
(* C21: whenever the modal is open for edit, the booking snapshot it       *)
(* carries is in the store with identical fields (id, hall, date, start,   *)
(* end, department, notes), after any sequence of user actions; so the     *)
(* hall the edit's conflict check uses is the stored booking's hall.       *)
(***************************************************************************)
\* the indices of the stored records equal to the modal's snapshot
StoredSnapshots == {i \in 1..Len(bookings) : bookings[i] = modalInfo.bookingToEdit[1]}

SnapshotStored == OpenForEdit => StoredSnapshots # {}

\* the form's interval overlaps another booking (another id) of hall `hall`
\* on the form's date
ClashesInHall(hall) ==
    \E j \in 1..Len(bookings) :
        /\ bookings[j].id # modalInfo.bookingToEdit[1].id
        /\ bookings[j].hallId = hall
        /\ bookings[j].date = FormDate
        /\ Overlap(FormStart, endTime, bookings[j].time, bookings[j].endTime)

\* a valid edit is refused exactly when it clashes in the stored booking's
\* hall, whatever hall is selected, and a saved edit stays in that hall
EditCheckedInStoredHall ==
    (handleSave /\ OpenForEdit /\ FormValid) =>
        \A i \in StoredSnapshots :
            /\ error' = ConflictMessage <=> ClashesInHall(bookings[i].hallId)
            /\ bookings' # bookings => bookings'[i].hallId = bookings[i].hallId

C21_EditSnapshotStored == [](SnapshotStored) /\ [][EditCheckedInStoredHall]_vars

\* open for edit on a booking the user created, after the other hall was selected
C21_Witness ==
    /\ OpenForEdit
    /\ StoredSnapshots # {}
    /\ modalInfo.bookingToEdit[1].id[1] = "iso"
    /\ selectedHall # modalInfo.bookingToEdit[1].hallId

====
